---- MODULE Spec2Model ----
(***************************************************************************)
(* NSLocale +preferredLanguages of touchHLE                                *)
(* (src/frameworks/foundation/ns_locale.rs).                               *)
(*                                                                         *)
(* One session (one Environment) is modelled.  The accessor runs on the    *)
(* thread that sends the message; its body is split at the points where    *)
(* it talks to a collaborator (options, SDL, the guest heap), and pc is    *)
(* the position inside it.                                                 *)
(*                                                                         *)
(* Text is a sequence of bytes.  Option<T> is a sequence of length 0       *)
(* (None, or a null pointer) or 1 (Some(x), or a pointer to x).            *)
(***************************************************************************)
EXTENDS Integers, Sequences, FiniteSets, TLC

\* ---------------------------------------------------------------- bounds

\* Entries the host puts before the terminator.
MaxEntries == 2
\* Entries of host memory lying after the terminator.
MaxTrailing == 1
\* Length of a --preferred-languages= list.
MaxOverride == 2
\* Messages [NSLocale preferredLanguages] sent in the session.
MaxCalls == 3

\* ---------------------------------------------------------------- values

None == <<>>
Some(x) == <<x>>
IsSome(o) == o # <<>>
Unwrap(o) == o[1]

\* "en", "fr", "US" as bytes; BadUtf8 is "f" followed by a byte that no
\* UTF-8 text contains.
En == <<101, 110>>
Fr == <<102, 114>>
US == <<85, 83>>
BadUtf8 == <<102, 255>>

SeqsUpTo(S, n) == UNION {[1..k -> S] : k \in 0..n}

\* The values --preferred-languages= can give options.preferred_languages.
OverrideTags == {En, Fr}
Overrides == {None} \cup {Some(l) : l \in SeqsUpTo(OverrideTags, MaxOverride)}

\* SDL_Locale: two C string pointers.  SDL gives every entry before the
\* terminator a non-null language; the country may be null.
HostTexts == {En, Fr, BadUtf8}
Countries == {US}
Terminator == [language |-> None, country |-> None]
ValidEntries ==
  [language : {Some(t) : t \in HostTexts},
   country : {None} \cup {Some(c) : c \in Countries}]
\* Memory after the terminator: further entries or further terminators.
TrailEntries ==
  {Terminator} \cup
  [language : {Some(En), Some(Fr)}, country : {Some(c) : c \in Countries}]
AllEntries ==
  [language : {None} \cup {Some(t) : t \in HostTexts},
   country : {None} \cup {Some(c) : c \in Countries}]

\* What SDL_GetPreferredLocales() can return: a null pointer, or a pointer
\* to entries, a terminator, and whatever memory follows the terminator.
HostMemories ==
  {p \o <<Terminator>> \o t :
     p \in SeqsUpTo(ValidEntries, MaxEntries),
     t \in SeqsUpTo(TrailEntries, MaxTrailing)}
HostReturns == {None} \cup {Some(m) : m \in HostMemories}

\* ------------------------------------------------------------ conversions

\* Slip: the bytes are taken as text unchecked.
Utf8ValidUnchecked(b) == TRUE
\* CStr::to_str(): Ok exactly when the bytes are well-formed UTF-8.
RECURSIVE Utf8Valid(_)
Utf8Valid(b) ==
  IF b = <<>> THEN TRUE
  ELSE
    LET n == Len(b)
        h == b[1]
        Cont(k) == k <= n /\ b[k] \in 128..191
    IN  IF h < 128 THEN Utf8Valid(Tail(b))
        ELSE IF h \in 194..223 THEN
          Cont(2) /\ Utf8Valid(SubSeq(b, 3, n))
        ELSE IF h \in 224..239 THEN
          /\ Cont(2) /\ Cont(3)
          /\ (h = 224 => b[2] >= 160)
          /\ (h = 237 => b[2] <= 159)
          /\ Utf8Valid(SubSeq(b, 4, n))
        ELSE IF h \in 240..244 THEN
          /\ Cont(2) /\ Cont(3) /\ Cont(4)
          /\ (h = 240 => b[2] >= 144)
          /\ (h = 244 => b[2] <= 143)
          /\ Utf8Valid(SubSeq(b, 5, n))
        ELSE FALSE

\* CStr::from_ptr(language).to_str(): the set of results the expression can
\* have, None standing for Err.  Reading through a null pointer is
\* undefined: it may fault or yield any text.
FromPtrToStr(language) ==
  IF language = None
    THEN {None} \cup {Some(t) : t \in HostTexts \ {BadUtf8}}
    ELSE IF Utf8Valid(Unwrap(language))
      THEN {Some(Unwrap(language))}
      ELSE {None}

\* locales_raw.offset(i).read(): the entries the read can yield.  Reading
\* past the memory the host handed out is undefined.
ReadOffset(mem, i) ==
  IF i < Len(mem) THEN {mem[i + 1]} ELSE AllEntries

\* Slip: the language test negated, so the terminator is not recognised.
IsTerminatorNegated(e) == e.language # None /\ e.country = None
\* language.is_null() && country.is_null()
IsTerminator(e) == e.language = None /\ e.country = None

\* Slip: the country is kept, as in "en_US".
PushedTagWithRegion(text, e) ==
  IF e.country = None THEN text ELSE text \o <<95>> \o Unwrap(e.country)
\* What an entry contributes to `languages`: the decoded language alone.
PushedTag(text, e) == text

\* Slip: a region-qualified default.
FallbackLangRegion == En \o <<95>> \o US
\* "en".to_string()
FallbackLang == En

\* Slip: the fallback is never applied.
NeedsFallbackNever(languages) == FALSE
\* languages.is_empty()
NeedsFallback(languages) == languages = <<>>

\* Slip: an empty override counts as no override.
OverrideConfiguredNonEmpty(o) == IsSome(o) /\ Unwrap(o) # <<>>
\* if let Some(ref preferred_languages) = options.preferred_languages
OverrideConfigured(o) == IsSome(o)

\* Slip: the default is substituted for an empty override.
CloneOrDefault(v) == IF v = <<>> THEN <<En>> ELSE v
\* preferred_languages.clone()
CloneVec(v) == [k \in 1..Len(v) |-> v[k]]

\* Slip: the slot is never found set.
CacheHitNever(slot) == FALSE
\* if let Some(existing) = State::get(env).preferred_languages
CacheHit(slot) == IsSome(slot)

\* ------------------------------------------------------------ guest heap

\* A guest object; its id is its index in the heap.
NSString(text) == [class |-> "NSString", chars |-> text, items |-> <<>>]
NSArray(ids) == [class |-> "NSArray", chars |-> <<>>, items |-> ids]

\* langs.into_iter().map(|lang| ns_string::from_rust_string(env, lang)):
\* one new string object per tag, then ns_array::from_vec: one new array
\* holding them in order.
HeapAfterWrap(h, l) ==
  h \o [k \in 1..Len(l) |-> NSString(l[k])]
    \o <<NSArray([k \in 1..Len(l) |-> Len(h) + k])>>
NewArrayId(h, l) == Len(h) + Len(l) + 1

\* The tags a guest reads out of array object a.
ArrayContent(h, a) == [k \in 1..Len(h[a].items) |-> h[h[a].items[k]].chars]

\* ----------------------------------------------------------------- state

VARIABLES
  options,        \* env.options: [preferred_languages: Option<Vec<String>>]
  ns_locale,      \* env.framework_state.foundation.ns_locale: State
  heap,           \* the guest objects allocated so far
  pc,             \* position of the thread inside +preferredLanguages
  locales_raw,    \* local of get_preferred_languages
  i,              \* loop index of get_preferred_languages
  languages,      \* local of get_preferred_languages
  langs,          \* local of +preferredLanguages
  calls,          \* messages sent so far
  returned,       \* what each returned message gave the guest
  resolverRuns,   \* entries into get_preferred_languages
  overrideSeen,   \* options.preferred_languages as the resolver found it
  overrideUses,   \* clones taken of the override
  hostRets,       \* the values SDL_GetPreferredLocales returned, in order
  freeLog,        \* SDL_free calls: the index in hostRets of the value freed
  reads,          \* offsets of locales_raw read by the last enumeration
  log,            \* log! records: [path, content]
  who,            \* the guest thread (or session) that is running
  thr,            \* per guest thread: where it is with its message
  parkedFrame,    \* pc and locals of the guest thread that is not running
  parkedSession   \* the Environment of the session that is not running

vars ==
  <<options, ns_locale, heap, pc, locales_raw, i, languages, langs, calls,
    returned, resolverRuns, overrideSeen, overrideUses, hostRets, freeLog,
    reads, log>>

frame == <<locales_raw, i, languages, langs>>
xvars == <<who, thr, parkedFrame, parkedSession>>
allvars == <<vars, xvars>>

\* Guest threads of one session.
Threads == {1, 2}
Other(t) == IF t = 1 THEN 2 ELSE 1

\* A thread that is not inside the accessor.
IdleFrame ==
  [pc |-> "idle", locales_raw |-> None, i |-> 0, languages |-> <<>>,
   langs |-> <<>>]
ghosts == <<resolverRuns, overrideSeen, overrideUses, hostRets, freeLog, reads>>

Init ==
  /\ options \in [preferred_languages : Overrides]
  /\ ns_locale = [preferred_languages |-> None]
  /\ heap = <<>>
  /\ pc = "idle"
  /\ locales_raw = None
  /\ i = 0
  /\ languages = <<>>
  /\ langs = <<>>
  /\ calls = 0
  /\ returned = <<>>
  /\ resolverRuns = 0
  /\ overrideSeen = None
  /\ overrideUses = 0
  /\ hostRets = <<>>
  /\ freeLog = <<>>
  /\ reads = {}
  /\ log = <<>>
  /\ who = 1
  /\ thr = [t \in Threads |-> [phase |-> "guest", early |-> FALSE]]
  /\ parkedFrame = IdleFrame
  /\ parkedSession = None

\* What a message that returns object a hands the guest, and the thread it
\* hands it to; `changed` notes that the configuration is no longer the one
\* the resolver found.
Returned(h, a, o) ==
  [obj |-> a, content |-> ArrayContent(h, a),
   changed |-> o.preferred_languages # overrideSeen, by |-> who]

\* ------------------------------------------------------------- accessor

\* +preferredLanguages, slot already set: `existing` is returned.
preferredLanguages_existing ==
  /\ pc = "idle"
  /\ calls < MaxCalls
  /\ CacheHit(ns_locale.preferred_languages)
  /\ calls' = calls + 1
  /\ returned' =
       Append(returned,
              Returned(heap, Unwrap(ns_locale.preferred_languages), options))
  /\ UNCHANGED <<options, ns_locale, heap, pc, frame, ghosts, log>>

\* +preferredLanguages, slot empty: get_preferred_languages(&env.options)
\* is entered.
preferredLanguages_resolve ==
  /\ pc = "idle"
  /\ calls < MaxCalls
  /\ ~CacheHit(ns_locale.preferred_languages)
  /\ calls' = calls + 1
  /\ resolverRuns' = resolverRuns + 1
  /\ overrideSeen' = options.preferred_languages
  /\ pc' = "get_preferred_languages"
  /\ UNCHANGED <<options, ns_locale, heap, frame, returned, overrideUses,
                 hostRets, freeLog, reads, log>>

\* get_preferred_languages, the override branch: log and return the clone.
override_return ==
  /\ pc = "get_preferred_languages"
  /\ OverrideConfigured(options.preferred_languages)
  /\ langs' = CloneVec(Unwrap(options.preferred_languages))
  /\ overrideUses' = overrideUses + 1
  /\ log' = Append(log, [path |-> "option", content |-> langs'])
  /\ pc' = "wrap"
  /\ UNCHANGED <<options, ns_locale, heap, locales_raw, i, languages, calls,
                 returned, resolverRuns, overrideSeen, hostRets, freeLog,
                 reads>>

\* get_preferred_languages, no override: SDL_GetPreferredLocales() and the
\* null test on what it returns.
SDL_GetPreferredLocales ==
  /\ pc = "get_preferred_languages"
  /\ ~OverrideConfigured(options.preferred_languages)
  /\ \E r \in HostReturns :
       /\ locales_raw' = r
       /\ hostRets' = Append(hostRets, r)
       /\ pc' = IF r # None THEN "enumerate" ELSE "select"
  /\ languages' = <<>>
  /\ i' = 0
  /\ reads' = {}
  /\ UNCHANGED <<options, ns_locale, heap, langs, calls, returned,
                 resolverRuns, overrideSeen, overrideUses, freeLog, log>>

\* One turn of `for i in 0..`: read entry i; break on the terminator, else
\* decode the language (unwrap panics on Err) and push it.
enumerate ==
  /\ pc = "enumerate"
  /\ reads' = reads \cup {i}
  /\ \E e \in ReadOffset(Unwrap(locales_raw), i) :
       IF IsTerminator(e)
         THEN /\ pc' = "free"
              /\ UNCHANGED <<languages, i>>
         ELSE \E text \in FromPtrToStr(e.language) :
                IF text = None
                  THEN /\ pc' = "panicked"
                       /\ UNCHANGED <<languages, i>>
                  ELSE /\ languages' = Append(languages, PushedTag(Unwrap(text), e))
                       /\ i' = i + 1
                       /\ pc' = "enumerate"
  /\ UNCHANGED <<options, ns_locale, heap, locales_raw, langs, calls,
                 returned, resolverRuns, overrideSeen, overrideUses, hostRets,
                 freeLog, log>>

\* Slip: the buffer is not released.
SDL_free_omitted ==
  /\ pc = "free"
  /\ pc' = "select"
  /\ UNCHANGED <<options, ns_locale, heap, frame, calls, returned, ghosts, log>>

\* sdl2_sys::SDL_free(locales_raw.cast())
SDL_free ==
  /\ pc = "free"
  /\ freeLog' = Append(freeLog, Len(hostRets))
  /\ pc' = "select"
  /\ UNCHANGED <<options, ns_locale, heap, frame, calls, returned,
                 resolverRuns, overrideSeen, overrideUses, hostRets, reads,
                 log>>

\* Slip: the fallback is logged as if the host had supplied the list.
select_result_mislabelled ==
  /\ pc = "select"
  /\ langs' = IF NeedsFallback(languages) THEN <<FallbackLang>> ELSE languages
  /\ log' = Append(log, [path |-> "system", content |-> langs'])
  /\ pc' = "wrap"
  /\ UNCHANGED <<options, ns_locale, heap, locales_raw, i, languages, calls,
                 returned, ghosts>>

\* The end of get_preferred_languages: "en" when nothing was retrieved,
\* else the host's languages; one log record either way.
select_result ==
  /\ pc = "select"
  /\ IF NeedsFallback(languages)
       THEN /\ langs' = <<FallbackLang>>
            /\ log' = Append(log, [path |-> "fallback", content |-> langs'])
       ELSE /\ langs' = languages
            /\ log' = Append(log, [path |-> "system", content |-> langs'])
  /\ pc' = "wrap"
  /\ UNCHANGED <<options, ns_locale, heap, locales_raw, i, languages, calls,
                 returned, ghosts>>

\* Slip: the new array is returned but not stored in the slot.
store_new_unsaved ==
  /\ pc = "wrap"
  /\ heap' = HeapAfterWrap(heap, langs)
  /\ returned' = Append(returned, Returned(heap', NewArrayId(heap, langs), options))
  /\ locales_raw' = None
  /\ i' = 0
  /\ languages' = <<>>
  /\ langs' = <<>>
  /\ pc' = "idle"
  /\ UNCHANGED <<options, ns_locale, calls, ghosts, log>>

\* Back in +preferredLanguages: wrap langs into guest objects, store the
\* array in the slot, return it.
store_new ==
  /\ pc = "wrap"
  /\ heap' = HeapAfterWrap(heap, langs)
  /\ ns_locale' = [preferred_languages |-> Some(NewArrayId(heap, langs))]
  /\ returned' = Append(returned, Returned(heap', NewArrayId(heap, langs), options))
  /\ locales_raw' = None
  /\ i' = 0
  /\ languages' = <<>>
  /\ langs' = <<>>
  /\ pc' = "idle"
  /\ UNCHANGED <<options, calls, ghosts, log>>

\* ---------------------------------------------------------- environment

\* The configuration changes between two messages.  (touchHLE itself sets
\* options once; the step is there so that staleness of the slot shows.)
SetOverride ==
  /\ pc = "idle"
  /\ \E o \in Overrides \ {options.preferred_languages} :
       options' = [preferred_languages |-> o]
  /\ UNCHANGED <<ns_locale, heap, pc, frame, calls, returned, ghosts, log>>

\* One thread, one session: the messages come one after the other.
Next ==
  \/ preferredLanguages_existing /\ UNCHANGED xvars
  \/ preferredLanguages_resolve /\ UNCHANGED xvars
  \/ override_return /\ UNCHANGED xvars
  \/ SDL_GetPreferredLocales /\ UNCHANGED xvars
  \/ enumerate /\ UNCHANGED xvars
  \/ SDL_free /\ UNCHANGED xvars
  \/ select_result /\ UNCHANGED xvars
  \/ store_new /\ UNCHANGED xvars
  \/ SetOverride /\ UNCHANGED xvars

Spec == Init /\ [][Next]_vars

\* ------------------------------------------------- other specifications

\* The accessor runs on the thread that calls it and nothing suspends it:
\* a step of the handler that can be taken is taken.
HandlerStep ==
  \/ override_return
  \/ SDL_GetPreferredLocales
  \/ enumerate
  \/ SDL_free
  \/ select_result
  \/ store_new

SpecLive ==
  Init /\ [][Next]_allvars /\ WF_allvars(HandlerStep /\ UNCHANGED xvars)

\* Host memory as the type SDL_Locale admits it: before the terminator any
\* entry that is not all-null, so also one with a null language.
RawEntries == AllEntries \ {Terminator}
RawMemories ==
  {p \o <<Terminator>> \o t :
     p \in SeqsUpTo(RawEntries, MaxEntries),
     t \in SeqsUpTo(TrailEntries, MaxTrailing)}
RawReturns == {None} \cup {Some(m) : m \in RawMemories}

\* SDL_GetPreferredLocales() and the null test, over RawReturns.
SDL_GetPreferredLocales_raw ==
  /\ pc = "get_preferred_languages"
  /\ ~OverrideConfigured(options.preferred_languages)
  /\ \E r \in RawReturns :
       /\ locales_raw' = r
       /\ hostRets' = Append(hostRets, r)
       /\ pc' = IF r # None THEN "enumerate" ELSE "select"
  /\ languages' = <<>>
  /\ i' = 0
  /\ reads' = {}
  /\ UNCHANGED <<options, ns_locale, heap, langs, calls, returned,
                 resolverRuns, overrideSeen, overrideUses, freeLog, log>>

NextRaw ==
  \/ preferredLanguages_existing /\ UNCHANGED xvars
  \/ preferredLanguages_resolve /\ UNCHANGED xvars
  \/ override_return /\ UNCHANGED xvars
  \/ SDL_GetPreferredLocales_raw /\ UNCHANGED xvars
  \/ enumerate /\ UNCHANGED xvars
  \/ SDL_free /\ UNCHANGED xvars
  \/ select_result /\ UNCHANGED xvars
  \/ store_new /\ UNCHANGED xvars

SpecRaw == Init /\ [][NextRaw]_allvars

\* -------------------------------------------------------- guest threads

\* Slip: a thread switch in the middle of the accessor.
EnvNotBorrowedAnywhere == TRUE
\* The accessor has `env: &mut Environment` from entry to return, so no
\* other thread runs code of the environment while pc is inside it.
EnvNotBorrowed == pc = "idle"

\* The running thread reaches the instruction that sends
\* [NSLocale preferredLanguages]; `early` notes that the slot is still empty.
msg_send ==
  /\ pc = "idle"
  /\ thr[who].phase = "guest"
  /\ thr' = [thr EXCEPT ![who] =
               [phase |-> "sent", early |-> ~CacheHit(ns_locale.preferred_languages)]]
  /\ UNCHANGED <<vars, who, parkedFrame, parkedSession>>

\* The other guest thread is scheduled; each thread keeps its own pc and
\* locals.
switch_thread ==
  /\ EnvNotBorrowed
  /\ pc # "panicked"
  /\ who' = Other(who)
  /\ parkedFrame' =
       [pc |-> pc, locales_raw |-> locales_raw, i |-> i,
        languages |-> languages, langs |-> langs]
  /\ pc' = parkedFrame.pc
  /\ locales_raw' = parkedFrame.locales_raw
  /\ i' = parkedFrame.i
  /\ languages' = parkedFrame.languages
  /\ langs' = parkedFrame.langs
  /\ UNCHANGED <<options, ns_locale, heap, calls, returned, ghosts, log, thr,
                 parkedSession>>

\* The message of the running thread is dispatched to +preferredLanguages.
Enters == thr[who].phase = "sent"
Inside == thr' = [thr EXCEPT ![who].phase = "inside"]
Leaves == thr' = [thr EXCEPT ![who].phase = "done"]
SameThread == UNCHANGED <<who, parkedFrame, parkedSession>>

\* Two guest threads of one session, each sending the message once; the
\* configuration is set once, before the session starts.
NextThreads ==
  \/ msg_send
  \/ switch_thread
  \/ Enters /\ preferredLanguages_existing /\ Leaves /\ SameThread
  \/ Enters /\ preferredLanguages_resolve /\ Inside /\ SameThread
  \/ override_return /\ UNCHANGED xvars
  \/ SDL_GetPreferredLocales /\ UNCHANGED xvars
  \/ enumerate /\ UNCHANGED xvars
  \/ SDL_free /\ UNCHANGED xvars
  \/ select_result /\ UNCHANGED xvars
  \/ store_new /\ Leaves /\ SameThread

SpecThreads == Init /\ [][NextThreads]_allvars

\* ------------------------------------------------------------- sessions

\* Everything an Environment owns, as a record.
ThisEnv ==
  [options |-> options, ns_locale |-> ns_locale, heap |-> heap, pc |-> pc,
   locales_raw |-> locales_raw, i |-> i, languages |-> languages,
   langs |-> langs, calls |-> calls, returned |-> returned,
   resolverRuns |-> resolverRuns, overrideSeen |-> overrideSeen,
   overrideUses |-> overrideUses, hostRets |-> hostRets,
   freeLog |-> freeLog, reads |-> reads, log |-> log]

\* A new Environment with override o: State::default() and nothing done.
NewEnv(o) ==
  [options |-> [preferred_languages |-> o],
   ns_locale |-> [preferred_languages |-> None], heap |-> <<>>,
   pc |-> "idle", locales_raw |-> None, i |-> 0, languages |-> <<>>,
   langs |-> <<>>, calls |-> 0, returned |-> <<>>, resolverRuns |-> 0,
   overrideSeen |-> None, overrideUses |-> 0, hostRets |-> <<>>,
   freeLog |-> <<>>, reads |-> {}, log |-> <<>>]

\* Slip: the slot is a process-wide static, the same for every Environment.
State_get_static(env) == ns_locale
\* State::get(env): the State that is a field of this Environment.
State_get(env) == env.ns_locale

\* The running session becomes e; the session that ran is parked.
RunEnv(e) ==
  /\ parkedSession' = Some(ThisEnv)
  /\ who' = Other(who)
  /\ options' = e.options
  /\ ns_locale' = State_get(e)
  /\ heap' = e.heap
  /\ pc' = e.pc
  /\ locales_raw' = e.locales_raw
  /\ i' = e.i
  /\ languages' = e.languages
  /\ langs' = e.langs
  /\ calls' = e.calls
  /\ returned' = e.returned
  /\ resolverRuns' = e.resolverRuns
  /\ overrideSeen' = e.overrideSeen
  /\ overrideUses' = e.overrideUses
  /\ hostRets' = e.hostRets
  /\ freeLog' = e.freeLog
  /\ reads' = e.reads
  /\ log' = e.log
  /\ UNCHANGED <<thr, parkedFrame>>

\* A second session starts, with an override of its own.
new_session ==
  /\ parkedSession = None
  /\ \E o \in Overrides \ {None, options.preferred_languages} : RunEnv(NewEnv(o))

\* The other session runs (another process, or another test's thread).
switch_session ==
  /\ parkedSession # None
  /\ RunEnv(Unwrap(parkedSession))

InitSessions == Init /\ OverrideConfigured(options.preferred_languages)

\* Two sessions with different overrides, their steps interleaved.
NextSessions ==
  \/ new_session
  \/ switch_session
  \/ preferredLanguages_existing /\ UNCHANGED xvars
  \/ preferredLanguages_resolve /\ UNCHANGED xvars
  \/ override_return /\ UNCHANGED xvars
  \/ store_new /\ UNCHANGED xvars

SpecSessions == InitSessions /\ [][NextSessions]_allvars

\* ------------------------------------------------------------ properties

Resolved == IsSome(ns_locale.preferred_languages)

\* The tags held by the array in the slot.
CachedTags == ArrayContent(heap, Unwrap(ns_locale.preferred_languages))

\* The resolver has finished and handed its list to the accessor.
ResolverDone == pc = "wrap" \/ Resolved

\* The list the resolver produced: `langs` until it is wrapped, then the
\* content of the slot.
ResolvedList == IF Resolved THEN CachedTags ELSE langs

\* The host was asked, and this is the memory it pointed to.
HostGaveMemory == hostRets # <<>> /\ hostRets[1] # None
HostMemory == Unwrap(hostRets[1])

\* Offset of the first entry whose language and country are both absent.
TerminatorOffset(mem) ==
  CHOOSE t \in 0..(Len(mem) - 1) :
    /\ mem[t + 1].language = <<>> /\ mem[t + 1].country = <<>>
    /\ \A u \in 0..(t - 1) :
         mem[u + 1].language # <<>> \/ mem[u + 1].country # <<>>

\* The language components of the entries before the terminator.
LanguagesBefore(mem) ==
  [k \in 1..TerminatorOffset(mem) |-> mem[k].language[1]]

\* How many times the value of host call h was passed to SDL_free.
Releases(h) == Cardinality({k \in 1..Len(freeLog) : freeLog[k] = h})

\* C1: every message after the first returns the object the first one
\* returned, with the content the first one had (same tags, same order).
C1_Idempotence ==
  \A k \in 1..Len(returned) :
    /\ returned[k].obj = returned[1].obj
    /\ returned[k].content = returned[1].content

C1_Witness ==
  /\ Len(returned) >= 3
  /\ returned[3].obj = returned[1].obj
  /\ Len(returned[3].content) >= 2

\* C2: when the resolver finds an override, the resolved list is the
\* override, element for element, and SDL_GetPreferredLocales is not called.
C2_OverridePrecedence ==
  (resolverRuns > 0 /\ IsSome(overrideSeen)) =>
    /\ hostRets = <<>>
    /\ pc \notin {"enumerate", "free", "select", "panicked"}
    /\ ResolverDone => ResolvedList = Unwrap(overrideSeen)

C2_Witness ==
  /\ Resolved
  /\ overrideSeen = Some(<<Fr, En>>)
  /\ CachedTags = <<Fr, En>>
  /\ hostRets = <<>>

\* C3 as stated: whatever the configuration, the cached list has at least
\* one entry.
C3_NonEmptyAlways == Resolved => Len(CachedTags) >= 1

\* C3 amended: unless the override is the empty list, the cached list has
\* at least one entry (no override with any host result, or a non-empty
\* override).
C3_NonEmptyUnlessEmptyOverride ==
  (Resolved /\ overrideSeen # Some(<<>>)) => Len(CachedTags) >= 1

C3_Witness ==
  /\ Resolved
  /\ overrideSeen = None
  /\ HostGaveMemory
  /\ TerminatorOffset(HostMemory) = 0
  /\ Len(CachedTags) = 1

\* C4: an override that is present and empty resolves to the empty list:
\* "en" is not substituted, the host is not asked, no fallback is logged.
C4_EmptyOverrideVerbatim ==
  (resolverRuns > 0 /\ overrideSeen = Some(<<>>)) =>
    /\ hostRets = <<>>
    /\ ResolverDone => ResolvedList = <<>>
    /\ \A k \in 1..Len(returned) : returned[k].content = <<>>
    /\ \A k \in 1..Len(log) : log[k].path = "option" /\ log[k].content = <<>>

C4_Witness ==
  /\ Resolved
  /\ overrideSeen = Some(<<>>)
  /\ Len(returned) >= 1
  /\ heap[returned[1].obj].items = <<>>

\* C5: with no override, a null buffer or a buffer that starts with the
\* terminator resolves to exactly ["en"], and the message does not fail.
C5_FallbackGuarantee ==
  (resolverRuns > 0 /\ overrideSeen = None /\ hostRets # <<>>
     /\ (hostRets[1] = None \/ TerminatorOffset(HostMemory) = 0)) =>
    /\ pc # "panicked"
    /\ ResolverDone => ResolvedList = <<(<<101, 110>>)>>

C5_Witness ==
  /\ hostRets = <<None>>
  /\ Len(returned) >= 1
  /\ returned[1].content = <<(<<101, 110>>)>>

\* C6: enumeration stops at the first all-absent entry: no offset after it
\* is read, and the resolved list is made of the entries before it alone.
C6_SentinelTermination ==
  HostGaveMemory =>
    LET t == TerminatorOffset(HostMemory) IN
      /\ reads \subseteq 0..t
      /\ Len(languages) <= t
      /\ ResolverDone => Len(ResolvedList) = IF t = 0 THEN 1 ELSE t

C6_Witness ==
  /\ Resolved
  /\ HostGaveMemory
  /\ HostMemory =
       <<[language |-> Some(En), country |-> Some(US)],
         [language |-> Some(Fr), country |-> Some(US)],
         Terminator,
         [language |-> Some(En), country |-> Some(US)]>>
  /\ reads = 0..2
  /\ CachedTags = <<En, Fr>>

\* C7: with no override and at least one host entry, the resolved list is
\* the language components of the entries before the terminator, in host
\* order, duplicates kept; the country components do not appear.
C7_RegionStripping ==
  (HostGaveMemory /\ ResolverDone /\ TerminatorOffset(HostMemory) > 0) =>
    ResolvedList = LanguagesBefore(HostMemory)

C7_Witness ==
  /\ Resolved
  /\ HostGaveMemory
  /\ HostMemory =
       <<[language |-> Some(En), country |-> Some(US)],
         [language |-> Some(En), country |-> None],
         Terminator>>
  /\ CachedTags = <<En, En>>

\* The resolver has left the block that calls the host and frees its buffer.
HostBlockLeft == pc \in {"select", "wrap", "idle"}

C9_AtMostOneResolution ==
  /\ [](/\ resolverRuns <= 1
        /\ overrideUses <= 1
        /\ Len(hostRets) <= 1
        /\ Len(heap) > 0 => Resolved
        /\ (calls >= 1 /\ overrideSeen = None /\ pc # "get_preferred_languages")
             => Len(hostRets) = 1)
  /\ [][Resolved => ns_locale' = ns_locale]_vars

C9_Witness ==
  /\ calls = 3
  /\ Len(returned) = 3
  /\ resolverRuns = 1
  /\ Len(hostRets) = 1
  /\ Resolved

\* C10: once the slot is set, a change of configuration between messages
\* changes nothing a later message returns: each later step leaves the slot
\* and the guest objects alone, consults neither the override nor the host,
\* and a message that returns gives the object and content of the first.
C10_CachedResultIsStale ==
  [][Resolved =>
       /\ ns_locale' = ns_locale
       /\ heap' = heap
       /\ resolverRuns' = resolverRuns
       /\ overrideUses' = overrideUses
       /\ hostRets' = hostRets
       /\ log' = log
       /\ returned' # returned =>
            /\ returned'[Len(returned')].obj = returned[1].obj
            /\ returned'[Len(returned')].content = returned[1].content]_vars

C10_Witness ==
  /\ Len(returned) >= 2
  /\ ~returned[1].changed
  /\ returned[2].changed
  /\ returned[2].obj = returned[1].obj
  /\ returned[2].content = returned[1].content
  /\ overrideSeen = None
  /\ Len(hostRets) = 1

\* Both threads sent the message while the slot was empty, and both have
\* their answer.
BothSentEarly ==
  /\ \A t \in Threads : thr[t].phase = "done" /\ thr[t].early
  /\ Len(returned) = 2
  /\ returned[1].by # returned[2].by

HasUndecodable(mem) ==
  \E k \in 1..TerminatorOffset(mem) :
    /\ mem[k].language # <<>>
    /\ \E b \in 1..Len(mem[k].language[1]) : mem[k].language[1][b] = 255

\* C12: when a language before the terminator is not valid text, the
\* resolution gets no further than the loop: it panics there, nothing is
\* wrapped, returned or logged, and the slot stays empty; it panics for no
\* other reason.
C12_UndecodableAborts ==
  /\ (HostGaveMemory /\ HasUndecodable(HostMemory)) =>
       /\ pc \in {"enumerate", "panicked"}
       /\ ~Resolved
       /\ returned = <<>>
       /\ heap = <<>>
       /\ log = <<>>
  /\ pc = "panicked" =>
       /\ HostGaveMemory
       /\ HasUndecodable(HostMemory)
       /\ HostMemory[i + 1].language = Some(BadUtf8)

C12_Witness ==
  /\ pc = "panicked"
  /\ languages = <<En>>
  /\ i = 1
  /\ ~Resolved
  /\ returned = <<>>

\* C13: only an all-absent entry ends the enumeration, every tag comes from
\* a present language component of the entry at its place, the tags are as
\* many as the entries before the terminator, and no absent language is
\* decoded.
C13_OnlyAllAbsentIsSentinel ==
  (HostGaveMemory /\ pc \in {"enumerate", "free", "select", "wrap", "panicked"}) =>
    LET mem == HostMemory
        t == TerminatorOffset(mem)
    IN  /\ \A k \in 1..Len(languages) :
             /\ k <= t
             /\ mem[k].language # None
             /\ languages[k] = mem[k].language[1]
        /\ pc = "panicked" => mem[i + 1].language # None
        /\ pc \in {"free", "select", "wrap"} => Len(languages) = t

\* The host returned something the loop can get through: a null pointer,
\* or memory whose languages before the terminator are all valid text.
Decodable == hostRets # <<>> /\ (hostRets[1] = None \/ ~HasUndecodable(HostMemory))

\* C14 as stated: once the host has returned a null pointer or a sequence
\* with a terminator, nothing keeps the call from returning.
C14_OnlyHostCanBlock ==
  (overrideSeen = None /\ hostRets # <<>>) => pc # "panicked"

\* C14 amended: with no override, if the host call returns a null pointer
\* or a sequence with a terminator in which every language before the
\* terminator is valid text, the first call returns and leaves the slot
\* set; the call fails to return only on a language that is not valid text
\* (or if the host does not return, or there is no terminator).
C14_FirstCallCompletes ==
  /\ Decodable ~> (Resolved /\ Len(returned) >= 1 /\ pc = "idle")
  /\ [](pc = "panicked" => (HostGaveMemory /\ HasUndecodable(HostMemory)))

C14_Witness ==
  /\ calls = 1
  /\ Len(returned) = 1
  /\ Resolved
  /\ HostGaveMemory
  /\ TerminatorOffset(HostMemory) = 2
  /\ pc = "idle"

\* The path the resolver took.
PathTaken ==
  IF IsSome(overrideSeen) THEN "option"
  ELSE IF hostRets[1] = None \/ TerminatorOffset(HostMemory) = 0 THEN "fallback"
  ELSE "system"

\* C15: a resolution logs one record, when it has its result, naming the
\* path taken (option, fallback, system) with the list produced; messages
\* answered from the slot log nothing.
C15_DiagnosticsMatchPath ==
  /\ Len(log) <= 1
  /\ ~ResolverDone => log = <<>>
  /\ ResolverDone =>
       /\ Len(log) = 1
       /\ log[1].path = PathTaken
       /\ log[1].content = ResolvedList

C15_Witness ==
  /\ calls = 3
  /\ Len(returned) = 3
  /\ Len(log) = 1
  /\ log[1].path = "fallback"
  /\ log[1].content = <<En>>

\* What session e holds, against its own configuration alone: the slot is
\* empty until e has been sent a message, and list and answers are e's
\* override.
OwnResult(e) ==
  /\ e.calls = 0 => e.ns_locale.preferred_languages = None
  /\ e.ns_locale.preferred_languages # None =>
       ArrayContent(e.heap, e.ns_locale.preferred_languages[1])
         = e.options.preferred_languages[1]
  /\ \A k \in 1..Len(e.returned) :
       e.returned[k].content = e.options.preferred_languages[1]

\* C16: with two sessions of different overrides, however their calls
\* interleave, each session's slot and answers are given by its own
\* override, and a step of one session leaves the other session as it was.
C16_SessionIsolation ==
  /\ [](/\ OwnResult(ThisEnv)
        /\ parkedSession # None => OwnResult(parkedSession[1]))
  /\ [][who' = who => parkedSession' = parkedSession]_allvars

C16_Witness ==
  /\ parkedSession # None
  /\ Resolved
  /\ parkedSession[1].ns_locale.preferred_languages # None
  /\ CachedTags = <<Fr, En>>
  /\ ArrayContent(parkedSession[1].heap,
                  parkedSession[1].ns_locale.preferred_languages[1]) = <<En>>
  /\ Len(returned) = 2
  /\ Len(parkedSession[1].returned) = 2

====
